---- MODULE Spec2Model ----
(***************************************************************************)
(* Model of moter.cpp: an SG90 servo driven by hardware PWM.               *)
(*   - calibrationPoints / interpolate: piecewise-linear calibration       *)
(*   - setServoAngle: validation, scaling to a PWM duty, pwmWrite          *)
(*   - store_to_db: the sqlite record sink                                 *)
(*   - main: wiringPi initialisation and the read-apply-delay loop         *)
(* Three specifications share the variables: Spec (main), SpecFn (the      *)
(* pure function interpolate applied to drawn arguments) and SpecDb        *)
(* (store_to_db called directly, with every sqlite outcome).               *)
(***************************************************************************)
EXTENDS Integers, Sequences, FiniteSets

VARIABLES
    pc,              \* position of main
    exitStatus,      \* value returned by main, -1 while running
    angle,           \* main's local `int angle`
    cinFail,         \* failbit of std::cin
    cinEof,          \* eofbit of std::cin
    extracted,       \* whether the last `cin >> angle` extracted an integer
    reads,           \* number of `cin >> angle` executed
    pinModeReg,      \* mode of pin `motor`
    pwmMode,         \* pwmSetMode
    pwmRange,        \* pwmSetRange
    pwmClock,        \* pwmSetClock
    pwmReg,          \* last value given to pwmWrite(motor, .)
    pwmWrites,       \* number of pwmWrite calls
    calibratedAngle, \* last value of setServoAngle's calibratedAngle
    lastMsg,         \* last line written to cout
    log,             \* rows of table motor in motor.db
    tableExists,     \* whether table motor exists
    openHandles,     \* sqlite3 handles opened and not yet closed
    dbErr,           \* last message store_to_db wrote to cerr
    cerrBad,         \* badbit of std::cerr
    fpc, fa, fb, fra, frb   \* SpecFn: arguments and results of interpolate

mainVars == <<pc, exitStatus, angle, cinFail, cinEof, extracted, reads,
              pinModeReg, pwmMode, pwmRange, pwmClock, pwmReg, pwmWrites,
              calibratedAngle, lastMsg>>
dbVars == <<log, tableExists, openHandles, dbErr, cerrBad>>
fnVars == <<fpc, fa, fb, fra, frb>>
vars == <<mainVars, dbVars, fnVars>>

(* ---------------- bounds ---------------- *)
BelowRange == 3
MaxInput == 183
MaxReads == 3
MaxRows == 2
MaxHandles == 2

(* ---------------- program constants ---------------- *)
motor == 1
minPwm == 50
maxPwm == 250
maxAngle == 168
INT_MAX == 2147483647
INT_MIN == -INT_MAX - 1

calibrationPoints ==
    << <<0, 0>>, <<45, 30>>, <<90, 80>>, <<135, 120>>, <<180, 168>> >>

\* C++ integer division truncates toward zero (divisor positive here)
TruncDiv(a, b) == IF a >= 0 THEN a \div b ELSE -((-a) \div b)

AngleInputs == (-BelowRange)..MaxInput
\* values an uninitialised / unmodified `int angle` may hold
IndeterminateInts == AngleInputs \cup {INT_MIN, INT_MAX}

(* ---------------- interpolate ---------------- *)
\* calibrationPoints[i][k] with the source's 0-based indices
P(i, k) == calibrationPoints[i + 1][k + 1]

\* the condition of the if in the loop body
InSegment(i, a) == a >= P(i, 0) /\ a <= P(i + 1, 0)

\* mutants of the interpolation formula
segmentValue_divFirst(i, a) ==
    LET x1 == P(i, 0)
        x2 == P(i + 1, 0)
        y1 == P(i, 1)
        y2 == P(i + 1, 1)
    IN  y1 + TruncDiv(a - x1, x2 - x1) * (y2 - y1)

segmentValue_noOffset(i, a) ==
    LET x1 == P(i, 0)
        x2 == P(i + 1, 0)
        y1 == P(i, 1)
        y2 == P(i + 1, 1)
    IN  TruncDiv((a - x1) * (y2 - y1), x2 - x1)

\* the interpolation formula of segment i
segmentValue(i, a) ==
    LET x1 == P(i, 0)
        x2 == P(i + 1, 0)
        y1 == P(i, 1)
        y2 == P(i + 1, 1)
    IN  y1 + TruncDiv((a - x1) * (y2 - y1), x2 - x1)

\* the for loop from index i on; falls through to `return angle`
RECURSIVE interpolateFrom(_, _)
interpolateFrom(i, a) ==
    IF i < 4
    THEN IF InSegment(i, a) THEN segmentValue(i, a)
         ELSE interpolateFrom(i + 1, a)
    ELSE a

interpolate(a) == interpolateFrom(0, a)

(* ---------------- setServoAngle ---------------- *)
InvalidAngle_noUpper(a) == a < 0

InvalidAngle_never(a) == a < 0 /\ a > 180

\* the guard of the rejection branch
InvalidAngle(a) == a < 0 \/ a > 180

pwmValueOf_divMaxAngle(cal) == minPwm + TruncDiv(cal * (maxPwm - minPwm), maxAngle)

\* the mapping of the calibrated angle to the PWM value
pwmValueOf(cal) == minPwm + TruncDiv(cal * (maxPwm - minPwm), 180)

SetServoAngle ==
    /\ pc = "apply"
    /\ IF InvalidAngle(angle)
       THEN /\ lastMsg' = "invalid"
            /\ UNCHANGED <<calibratedAngle, pwmReg, pwmWrites>>
       ELSE /\ calibratedAngle' = interpolate(angle)
            /\ pwmReg' = pwmValueOf(interpolate(angle))
            /\ pwmWrites' = pwmWrites + 1
            /\ lastMsg' = "set"
    /\ pc' = "delay"
    /\ UNCHANGED <<exitStatus, angle, cinFail, cinEof, extracted, reads,
                   pinModeReg, pwmMode, pwmRange, pwmClock>>
    /\ UNCHANGED <<dbVars, fnVars>>

(* ---------------- main ---------------- *)
WiringPiSetup_ignoreFailure ==
    /\ pc = "setup"
    /\ \E rc \in {0, -1} :
          /\ lastMsg' = IF rc = -1 THEN "setupfail" ELSE lastMsg
          /\ pc' = "pinMode"
          /\ UNCHANGED exitStatus
    /\ UNCHANGED <<angle, cinFail, cinEof, extracted, reads, pinModeReg,
                   pwmMode, pwmRange, pwmClock, pwmReg, pwmWrites,
                   calibratedAngle>>
    /\ UNCHANGED <<dbVars, fnVars>>

\* if (wiringPiSetup() == -1) { ...; return 1; }
WiringPiSetup ==
    /\ pc = "setup"
    /\ \E rc \in {0, -1} :
          IF rc = -1
          THEN /\ lastMsg' = "setupfail"
               /\ pc' = "exit"
               /\ exitStatus' = 1
          ELSE /\ pc' = "pinMode"
               /\ UNCHANGED <<lastMsg, exitStatus>>
    /\ UNCHANGED <<angle, cinFail, cinEof, extracted, reads, pinModeReg,
                   pwmMode, pwmRange, pwmClock, pwmReg, pwmWrites,
                   calibratedAngle>>
    /\ UNCHANGED <<dbVars, fnVars>>

PinMode ==
    /\ pc = "pinMode"
    /\ pinModeReg' = "PWM_OUTPUT"
    /\ pc' = "pwmSetMode"
    /\ UNCHANGED <<exitStatus, angle, cinFail, cinEof, extracted, reads,
                   pwmMode, pwmRange, pwmClock, pwmReg, pwmWrites,
                   calibratedAngle, lastMsg>>
    /\ UNCHANGED <<dbVars, fnVars>>

PwmSetMode ==
    /\ pc = "pwmSetMode"
    /\ pwmMode' = "PWM_MODE_MS"
    /\ pc' = "pwmSetRange"
    /\ UNCHANGED <<exitStatus, angle, cinFail, cinEof, extracted, reads,
                   pinModeReg, pwmRange, pwmClock, pwmReg, pwmWrites,
                   calibratedAngle, lastMsg>>
    /\ UNCHANGED <<dbVars, fnVars>>

PwmSetRange ==
    /\ pc = "pwmSetRange"
    /\ pwmRange' = 2000
    /\ pc' = "pwmSetClock"
    /\ UNCHANGED <<exitStatus, angle, cinFail, cinEof, extracted, reads,
                   pinModeReg, pwmMode, pwmClock, pwmReg, pwmWrites,
                   calibratedAngle, lastMsg>>
    /\ UNCHANGED <<dbVars, fnVars>>

PwmSetClock ==
    /\ pc = "pwmSetClock"
    /\ pwmClock' = 192
    /\ pc' = "read"
    /\ UNCHANGED <<exitStatus, angle, cinFail, cinEof, extracted, reads,
                   pinModeReg, pwmMode, pwmRange, pwmReg, pwmWrites,
                   calibratedAngle, lastMsg>>
    /\ UNCHANGED <<dbVars, fnVars>>

\* what stdin offers to one `cin >> angle`; atEnd tells that the token's
\* characters are the last ones of stdin, so that reading it reaches the
\* end of input
Tokens == [kind : {"int"}, val : AngleInputs, atEnd : BOOLEAN]
            \cup [kind : {"overflow"}, val : {INT_MIN, INT_MAX}, atEnd : BOOLEAN]
            \cup [kind : {"nonint"}, val : {0}, atEnd : BOOLEAN]
            \cup [kind : {"eof"}, val : {0}, atEnd : {TRUE}]

\* cout << prompt; cin >> angle;
\*  - stream not good (failbit or eofbit set): the sentry sets failbit,
\*    angle is not assigned (a fresh uninitialised local of the loop body)
\*  - end of input: the sentry sets eofbit and failbit, angle not assigned
\*  - a number: stored in angle; eofbit is set, and failbit is not, when
\*    its digits are the last characters of stdin
\*  - not a number: num_get stores 0 and sets failbit (C++11)
\*  - number outside int: num_get stores the nearest limit and sets failbit
ReadAngle ==
    /\ pc = "read"
    /\ reads < MaxReads
    /\ reads' = reads + 1
    /\ lastMsg' = "prompt"
    /\ IF cinFail \/ cinEof
       THEN /\ \E v \in IndeterminateInts : angle' = v
            /\ extracted' = FALSE
            /\ cinFail' = TRUE
            /\ UNCHANGED cinEof
       ELSE \E t \in Tokens :
              CASE t.kind = "int" ->
                     /\ angle' = t.val
                     /\ extracted' = TRUE
                     /\ cinEof' = t.atEnd
                     /\ UNCHANGED cinFail
                [] t.kind = "overflow" ->
                     /\ angle' = t.val
                     /\ extracted' = FALSE
                     /\ cinFail' = TRUE
                     /\ cinEof' = t.atEnd
                [] t.kind = "nonint" ->
                     /\ angle' = 0
                     /\ extracted' = FALSE
                     /\ cinFail' = TRUE
                     /\ cinEof' = t.atEnd
                [] t.kind = "eof" ->
                     /\ \E v \in IndeterminateInts : angle' = v
                     /\ extracted' = FALSE
                     /\ cinFail' = TRUE
                     /\ cinEof' = TRUE
    /\ pc' = "apply"
    /\ UNCHANGED <<exitStatus, pinModeReg, pwmMode, pwmRange, pwmClock,
                   pwmReg, pwmWrites, calibratedAngle>>
    /\ UNCHANGED <<dbVars, fnVars>>

\* delay(500); then the next iteration of while (true)
Delay ==
    /\ pc = "delay"
    /\ pc' = "read"
    /\ UNCHANGED <<exitStatus, angle, cinFail, cinEof, extracted, reads,
                   pinModeReg, pwmMode, pwmRange, pwmClock, pwmReg,
                   pwmWrites, calibratedAngle, lastMsg>>
    /\ UNCHANGED <<dbVars, fnVars>>

DbIdle ==
    /\ log = << >>
    /\ tableExists \in BOOLEAN
    /\ openHandles = 0
    /\ dbErr = "none"
    /\ cerrBad = FALSE

FnIdle ==
    /\ fpc = "idle"
    /\ fa = 0
    /\ fb = 0
    /\ fra = 0
    /\ frb = 0

MainIdle ==
    /\ pc = "setup"
    /\ exitStatus = -1
    /\ angle = 0
    /\ cinFail = FALSE
    /\ cinEof = FALSE
    /\ extracted = FALSE
    /\ reads = 0
    /\ pinModeReg = "INPUT"
    /\ pwmMode = "PWM_MODE_BAL"
    /\ pwmRange = 0
    /\ pwmClock = 0
    /\ pwmReg = 0
    /\ pwmWrites = 0
    /\ calibratedAngle = 0
    /\ lastMsg = "banner"

Init == MainIdle /\ DbIdle /\ FnIdle

Next ==
    \/ WiringPiSetup
    \/ PinMode
    \/ PwmSetMode
    \/ PwmSetRange
    \/ PwmSetClock
    \/ ReadAngle
    \/ SetServoAngle
    \/ Delay

Spec == Init /\ [][Next]_vars

(* ---------------- store_to_db ---------------- *)
DbAngles == {0, 90, 180}

\* broken-down local times std::localtime may return
LocalTimes == [tm_year : {126}, tm_mon : {9}, tm_mday : {31},
               tm_hour : {8}, tm_min : {59}, tm_sec : {58, 59}]

\* std::put_time(tm, "%Y-%m-%d %H:%M:%S"), as its six numeric fields
put_time(tm) == <<tm.tm_year + 1900, tm.tm_mon + 1, tm.tm_mday,
                  tm.tm_hour, tm.tm_min, tm.tm_sec>>

\* sqlite3_open leaves a handle in db even when it fails, unless the
\* handle itself could not be allocated (db = NULL)
OpenResults == {"ok", "error", "nomem"}

\* sqlite3_exec: on failure errMsg holds a message, or is NULL when the
\* message could not be allocated
ExecResults == {"ok", "error", "nomem"}

\* std::cerr << msg: a stream with badbit set drops the output
cerrWrite(msg) == IF cerrBad THEN dbErr ELSE msg

\* one call of store_to_db(a); the results of the sqlite calls are inputs
store_to_db(a) ==
    \E openRc \in OpenResults, execRc \in ExecResults, prepareOk \in BOOLEAN,
       stepOk \in BOOLEAN, tm \in LocalTimes :
       IF openRc # "ok"
       THEN \* return without sqlite3_close(db)
            /\ dbErr' = cerrWrite("Can't open database")
            /\ openHandles' = IF openRc = "error" THEN openHandles + 1
                              ELSE openHandles
            /\ UNCHANGED <<log, tableExists, cerrBad>>
       ELSE IF execRc # "ok"
       THEN \* cerr << "SQL error: " << errMsg; a null errMsg sets badbit
            /\ dbErr' = cerrWrite("SQL error")
            /\ cerrBad' = (cerrBad \/ execRc = "nomem")
            /\ UNCHANGED <<log, tableExists, openHandles>>
       ELSE IF ~prepareOk
       THEN /\ dbErr' = cerrWrite("Failed to prepare statement")
            /\ tableExists' = TRUE
            /\ UNCHANGED <<log, openHandles, cerrBad>>
       ELSE IF ~stepOk
       THEN /\ dbErr' = cerrWrite("Execution failed")
            /\ tableExists' = TRUE
            /\ UNCHANGED <<log, openHandles, cerrBad>>
       ELSE /\ log' = Append(log, [ID |-> Len(log) + 1, Angle |-> a,
                                   Time |-> put_time(tm)])
            /\ tableExists' = TRUE
            /\ UNCHANGED <<dbErr, openHandles, cerrBad>>

StoreToDb ==
    /\ Len(log) < MaxRows
    /\ openHandles < MaxHandles
    /\ \E a \in DbAngles : store_to_db(a)
    /\ UNCHANGED <<mainVars, fnVars>>

InitDb == MainIdle /\ DbIdle /\ FnIdle

NextDb == StoreToDb

SpecDb == InitDb /\ [][NextDb]_vars

(* ---------------- interpolate on drawn arguments ---------------- *)
InitFn ==
    /\ MainIdle
    /\ DbIdle
    /\ fpc = "args"
    /\ fa \in AngleInputs
    /\ fb \in AngleInputs
    /\ fra = 0
    /\ frb = 0

ApplyInterpolate ==
    /\ fpc = "args"
    /\ fra' = interpolate(fa)
    /\ frb' = interpolate(fb)
    /\ fpc' = "done"
    /\ UNCHANGED <<fa, fb>>
    /\ UNCHANGED <<mainVars, dbVars>>

NextFn == ApplyInterpolate

SpecFn == InitFn /\ [][NextFn]_vars

(* ======================= properties ======================= *)

\* C1: a commanded angle outside [0,180] only produces the rejection
\* message: no pwmWrite, the duty and the log stay as they were, and the
\* loop goes on to the delay and from there to the next prompt.
C1_RejectNoSideEffect ==
    [][ /\ (pc = "apply" /\ (angle < 0 \/ angle > 180)) =>
             /\ pwmReg' = pwmReg
             /\ pwmWrites' = pwmWrites
             /\ log' = log
             /\ lastMsg' = "invalid"
             /\ pc' = "delay"
        /\ (pc = "delay" /\ lastMsg = "invalid") => pc' = "read"
      ]_vars

C1_Witness ==
    /\ pc = "delay"
    /\ angle > 180
    /\ lastMsg = "invalid"
    /\ pwmWrites = 1
    /\ pwmReg = 138

\* C2: for a commanded angle in [0,180] the duty written is
\* 50 + calibrated * 200 / 180 with truncating division, calibrated being
\* interpolate(angle); 0 -> 50, 45 -> 83, 60 -> 101, 90 -> 138, 180 -> 236.
C2_DutyFormula ==
    (pc = "delay" /\ lastMsg = "set") =>
        /\ angle \in 0..180
        /\ calibratedAngle = interpolate(angle)
        /\ pwmReg >= 50
        /\ (pwmReg - 50) * 180 <= calibratedAngle * 200
        /\ calibratedAngle * 200 < (pwmReg - 50 + 1) * 180
        /\ (angle = 0 => pwmReg = 50)
        /\ (angle = 45 => pwmReg = 83)
        /\ (angle = 60 => pwmReg = 101)
        /\ (angle = 90 => pwmReg = 138)
        /\ (angle = 180 => pwmReg = 236)

C2_Witness ==
    /\ pc = "delay"
    /\ lastMsg = "set"
    /\ angle = 60
    /\ calibratedAngle = 46
    /\ pwmReg = 101

\* C3: for an angle in [0,180] interpolate takes the earliest segment
\* containing the angle and returns y1 + (angle-x1)*(y2-y1)/(x2-x1),
\* truncated; at the table angles the result is the table's raw value.
C3_Table == << <<0, 0>>, <<45, 30>>, <<90, 80>>, <<135, 120>>, <<180, 168>> >>

C3_Earliest(a) ==
    CHOOSE i \in 1..4 :
        /\ C3_Table[i][1] <= a /\ a <= C3_Table[i + 1][1]
        /\ \A j \in 1..(i - 1) :
              ~(C3_Table[j][1] <= a /\ a <= C3_Table[j + 1][1])

C3_InterpolateSegment ==
    (fpc = "done" /\ fa \in 0..180) =>
        LET i == C3_Earliest(fa)
            x1 == C3_Table[i][1]
            y1 == C3_Table[i][2]
            x2 == C3_Table[i + 1][1]
            y2 == C3_Table[i + 1][2]
            q == fra - y1
        IN  /\ q >= 0
            /\ q * (x2 - x1) <= (fa - x1) * (y2 - y1)
            /\ (fa - x1) * (y2 - y1) < (q + 1) * (x2 - x1)
            /\ (fa = 0 => fra = 0)
            /\ (fa = 45 => fra = 30)
            /\ (fa = 90 => fra = 80)
            /\ (fa = 135 => fra = 120)
            /\ (fa = 180 => fra = 168)

C3_Witness ==
    /\ fpc = "done"
    /\ fa = 90
    /\ fra = 80
    /\ fb = 60
    /\ frb = 46

\* C4: interpolate is monotonically non-decreasing on [0,180].
C4_Monotone ==
    (fpc = "done" /\ 0 <= fa /\ fa <= fb /\ fb <= 180) => fra <= frb

C4_Witness ==
    /\ fpc = "done"
    /\ fa = 90
    /\ fb = 91
    /\ fra = 80
    /\ frb = 80

\* C5: whatever the operator enters, every duty passed to pwmWrite lies in
\* [50,236], inside the pulse-width domain [50,250] and the frame range.
C5_DutyInRange ==
    pwmWrites > 0 =>
        /\ pwmReg >= 50
        /\ pwmReg <= 236
        /\ pwmReg <= 250
        /\ pwmReg <= pwmRange

C5_Witness ==
    /\ pwmWrites >= 2
    /\ pwmReg = 236
    /\ reads = 3
    /\ lastMsg = "invalid"

\* C6: every accepted command appends exactly one row to the log, so the
\* log holds as many rows as commands were accepted.
C6_OneRowPerCommand == Len(log) = pwmWrites

\* C7: once a read has found standard input at its end, no further PWM
\* write is issued (a write for a command that was read stays allowed,
\* also when reading it reached the end of input).
C7_NoWriteAfterEof ==
    [][(cinEof /\ ~extracted) => pwmWrites' = pwmWrites]_vars

\* C8: a failed wiringPiSetup ends the process with status 1 before the
\* pin is configured, a command is read or a PWM write is made; a PWM
\* write happens only after pinMode, mark-space mode, range 2000 and
\* clock 192, the mode being set before range and clock.
C8_InitBeforeWrite ==
    /\ lastMsg = "setupfail" => (pc = "exit" /\ exitStatus = 1)
    /\ exitStatus = 1 =>
          /\ pc = "exit"
          /\ pinModeReg = "INPUT"
          /\ pwmMode = "PWM_MODE_BAL"
          /\ pwmRange = 0
          /\ pwmClock = 0
          /\ reads = 0
          /\ pwmWrites = 0
    /\ (pwmRange # 0 \/ pwmClock # 0) =>
          (pinModeReg = "PWM_OUTPUT" /\ pwmMode = "PWM_MODE_MS")
    /\ (pwmWrites > 0 \/ reads > 0) =>
          /\ pinModeReg = "PWM_OUTPUT"
          /\ pwmMode = "PWM_MODE_MS"
          /\ pwmRange = 2000
          /\ pwmClock = 192

C8_Witness ==
    /\ pc = "exit"
    /\ exitStatus = 1
    /\ lastMsg = "setupfail"
    /\ pinModeReg = "INPUT"

\* C9: after store_to_db returns, on whichever path, no storage handle
\* remains open.
C9_HandleReleased == openHandles = 0

\* C10: after a read that failed on input that is not an integer (the
\* stream failed without being at its end) no PWM write is made: the
\* operator entered no command.
C10_NoWriteForBadInput ==
    [][(cinFail /\ ~cinEof) => pwmWrites' = pwmWrites]_vars
====
